---- MODULE Spec2Model ----
(***************************************************************************)
(* Model of neurons/val_sim.py: Miner.__init__ (state params), Miner.run   *)
(* (the window loop: gather, per-peer fetch, own-data and other-data       *)
(* evaluation with trial/revert, binary moving average, sign-SGD step) and *)
(* Miner.block_listener (the background clock handler).                    *)
(*                                                                         *)
(* Python values are represented as follows.                               *)
(*   - an optional value is a sequence: <<>> is None / a missing dict key, *)
(*     <<v>> is the value v;                                               *)
(*   - a tensor is a sequence of TensorLen integers;                       *)
(*   - a state_dict is a function from keys <<n, "idxs">>, <<n, "vals">>   *)
(*     to optional sequences;                                              *)
(*   - learning rates and parameter values are integers in units of        *)
(*     learning_rate / BaseLr; losses are small non-negative integers;     *)
(*   - a moving average a is stored as the integer a * Scale.              *)
(***************************************************************************)
EXTENDS Integers, Sequences, FiniteSets, TLC

\* ---------------------------------------------------------------- bounds
MaxWindows == 2
MaxBlock == 3
TensorLen == 2

\* ------------------------------------------------------ program constants
BlocksPerWindow == 2
BaseLr == 10000
WarmupIters == 250
StartFactorInv == 10
TrialLrDiv == 4
MaxBatches == 4
AlphaDen == 20
Uid == 0

ParamNames == <<"p1", "p2">>
Params == {ParamNames[i] : i \in 1..Len(ParamNames)}
Uids == {0, 1, 2}

Scale == AlphaDen ^ MaxWindows

\* ------------------------------------------------------- optional values
NoneVal == << >>
Some(v) == <<v>>
IsNone(o) == Len(o) = 0
Val(o) == o[1]

\* ----------------------------------------------------------------- tensors
Zeros == [i \in 1..TensorLen |-> 0]

Sgn(x) == IF x > 0 THEN 1 ELSE IF x < 0 THEN -1 ELSE 0

\* torch.Tensor.sign
sign(t) == [i \in 1..Len(t) |-> Sgn(t[i])]

\* p.data.sub_(g, alpha=a)
sub_(p, g, a) == [i \in 1..Len(p) |-> p[i] - a * g[i]]

\* p.data.add_(g, alpha=a)
add_(p, g, a) == [i \in 1..Len(p) |-> p[i] + a * g[i]]

\* compressor.decompress followed by transformer.decode: the values are
\* scattered at their indices into a zero tensor of the parameter's shape.
decompress(idxs, vals) ==
    [i \in 1..TensorLen |->
        IF \E j \in 1..Len(idxs) : idxs[j] = i
        THEN vals[CHOOSE j \in 1..Len(idxs) : idxs[j] = i]
        ELSE 0]

RECURSIVE batch_decompress(_, _)
\* compressor.batch_decompress: the peers' scattered tensors are added up.
batch_decompress(idxs, vals) ==
    IF Len(idxs) = 0 THEN Zeros
    ELSE LET h == decompress(Head(idxs), Head(vals))
             r == batch_decompress(Tail(idxs), Tail(vals))
         IN [i \in 1..TensorLen |-> h[i] + r[i]]

\* ------------------------------------------------------------- state_dicts
Keys == Params \X {"idxs", "vals"}

idxs_key(n) == <<n, "idxs">>
vals_key(n) == <<n, "vals">>

EmptyDict == [k \in Keys |-> NoneVal]

\* The updates a peer can have stored for a window (the values comms.get
\* returns when the update is there): complete ones, ones that lack a
\* parameter or one of its two fields, and one with no parameter at all.
FullA == [k \in Keys |->
    IF k = <<"p1", "idxs">> THEN Some(<<1, 2>>)
    ELSE IF k = <<"p1", "vals">> THEN Some(<<3, -2>>)
    ELSE IF k = <<"p2", "idxs">> THEN Some(<<1>>)
    ELSE Some(<<-1>>)]
OnlyP2 == [FullA EXCEPT ![<<"p1", "idxs">>] = NoneVal, ![<<"p1", "vals">>] = NoneVal]
NoVals == [FullA EXCEPT ![<<"p2", "vals">>] = NoneVal]
Updates == {FullA, OnlyP2, NoVals, EmptyDict}

\* The attributes gather_result.state_dict can carry: per parameter a list
\* with one index tensor and one value tensor per responding peer.
GatherNone == EmptyDict
GatherP1 == [k \in Keys |->
    IF k = <<"p1", "idxs">> THEN Some(<< <<1>>, <<1, 2>> >>)
    ELSE IF k = <<"p1", "vals">> THEN Some(<< <<4>>, <<-1, -2>> >>)
    ELSE NoneVal]
GatherP2 == [k \in Keys |->
    IF k = <<"p2", "idxs">> THEN Some(<< <<2>> >>)
    ELSE IF k = <<"p2", "vals">> THEN Some(<< <<-3>> >>)
    ELSE NoneVal]
Gathers == {GatherNone, GatherP1}

\* The gather results of the runs that follow one parameter's data through
\* windows that carry another parameter's: the above and data for p2 alone.
GathersAny == Gathers \cup {GatherP2}

\* config.peers: a list without self, and one that names self twice
PeerConfigs == {<<1, 2>>, <<0, 1, 0>>}

\* The stakes get_highest_stake_validator can report
Stakes == {0, 5}

\* The values of comms.get for key 'checkpoint', other than None
Checkpoint == [n \in {"p1", "p2"} |-> [i \in 1..TensorLen |-> 7 * i]]

\* outputs.loss.item() of one batch
BatchLoss == {0, 1}

\* ------------------------------------------------------------- list helpers
\* list.remove(x): drops the first occurrence of x.
RECURSIVE remove(_, _)
remove(s, x) ==
    IF Len(s) = 0 THEN s
    ELSE IF Head(s) = x THEN Tail(s)
    ELSE <<Head(s)>> \o remove(Tail(s), x)

InList(s, x) == \E i \in 1..Len(s) : s[i] = x

\* ------------------------------------------------------------------- state
VARIABLES
    pc,                          \* position of Miner.run
    err,                         \* the exception that ended Miner.run, or "none"
    current_block,               \* self.current_block
    current_window,              \* self.current_window
    sync_window,                 \* self.sync_window
    global_step,                 \* self.global_step
    peers,                       \* self.peers
    gather_result,               \* gather_result.state_dict
    eval_result,                 \* eval_result
    eval_idx,                    \* position of `for eval_uid in self.peers`
    model,                       \* self.model's parameters
    model_copy,                  \* model_copy
    grad,                        \* p.grad of each parameter
    temp_grad,                   \* temp_grad
    loss_before_per_batch,       \* loss_before_per_batch
    loss_after_per_batch,        \* loss_after_per_batch
    loss_improvement,            \* loss_improvement
    loss_improvement_other,      \* loss_improvement_other
    binary_value,                \* binary_value of each uid of this window
    loss_improvement_moving_avg, \* loss_improvement_moving_avg (times Scale)
    signal_log,                  \* history: the binary values each uid received
    local,                       \* self.config.local
    stake,                       \* the highest validator stake (0 without metagraph)
    checkpoint_gets,             \* history: the comms.get calls for key 'checkpoint'
    last_gather_window           \* history: current_window at the latest gather

vars == <<pc, err, current_block, current_window, sync_window, global_step,
          peers, gather_result, eval_result, eval_idx, model, model_copy, grad,
          temp_grad, loss_before_per_batch, loss_after_per_batch,
          loss_improvement, loss_improvement_other, binary_value,
          loss_improvement_moving_avg, signal_log, local, stake,
          checkpoint_gets, last_gather_window>>

boot_vars == <<local, stake, checkpoint_gets>>
clock_vars == <<current_block, current_window>>
eval_vars == <<loss_before_per_batch, loss_after_per_batch, loss_improvement,
               loss_improvement_other>>
trust_vars == <<binary_value, loss_improvement_moving_avg, signal_log>>

NoDict == [u \in Uids |-> NoneVal]

\* WindowOf rounding the quotient up.
WindowOf_RoundUp(block) == (block + BlocksPerWindow - 1) \div BlocksPerWindow

\* int(self.current_block / self.hparams.blocks_per_window)
WindowOf(block) == block \div BlocksPerWindow

\* Miner.__init__, "Init peers": self is appended when it is not listed.
InitPeers(cfg) == IF InList(cfg, Uid) THEN cfg ELSE Append(cfg, Uid)

\* The parameters of a freshly initialised model.
FreshModel == [n \in Params |-> [i \in 1..TensorLen |-> 10 * i]]

Init ==
    /\ pc = "init"
    /\ local \in BOOLEAN
    /\ stake \in IF local THEN {0} ELSE Stakes
    /\ checkpoint_gets = 0
    /\ err = "none"
    /\ current_block \in 0..(BlocksPerWindow - 1)
    /\ current_window = WindowOf(current_block)
    /\ sync_window = current_window
    /\ global_step = 0
    /\ \E cfg \in PeerConfigs : peers = InitPeers(cfg)
    /\ gather_result = EmptyDict
    /\ eval_result = NoDict
    /\ eval_idx = 1
    /\ model = FreshModel
    /\ model_copy = model
    /\ grad = [n \in Params |-> NoneVal]
    /\ temp_grad = [n \in Params |-> NoneVal]
    /\ loss_before_per_batch = 0
    /\ loss_after_per_batch = 0
    /\ loss_improvement = NoDict
    /\ loss_improvement_other = NoDict
    /\ binary_value = NoDict
    /\ loss_improvement_moving_avg = NoDict
    /\ signal_log = [u \in Uids |-> << >>]
    /\ last_gather_window = current_window

\* ------------------------------------------------------ pieces of Miner.run
\* self.scheduler.get_last_lr()[0] after t scheduler steps (LinearLR warm-up
\* from start_factor 1/StartFactorInv to 1 over WarmupIters steps).
get_last_lr(t) ==
    (BaseLr * (WarmupIters + (StartFactorInv - 1) * t)) \div (StartFactorInv * WarmupIters)

\* alpha=self.scheduler.get_last_lr()[0] * 0.25
TrialStep(t) == get_last_lr(t) \div TrialLrDiv

\* `if idxs is not None and vals is not None`
HasUpdate(sd, n) == ~IsNone(sd[idxs_key(n)]) /\ ~IsNone(sd[vals_key(n)])

\* grad = self.transformer.decode(self.compressor.decompress(...))
DecodedGrad(sd, n) == decompress(Val(sd[idxs_key(n)]), Val(sd[vals_key(n)]))

\* The trial loop over named_parameters: temp_grad[n] = grad for every
\* parameter of the update; tg is temp_grad as the loop finds it.
TrialTempGrad(tg, sd) ==
    [n \in Params |-> IF HasUpdate(sd, n) THEN Some(DecodedGrad(sd, n)) ELSE tg[n]]

\* The trial loop over named_parameters: p.data.sub_(grad.sign(), alpha=...)
TrialModel(m, sd, t) ==
    [n \in Params |->
        IF HasUpdate(sd, n) THEN sub_(m[n], sign(DecodedGrad(sd, n)), TrialStep(t))
        ELSE m[n]]

IndexOf(n) == CHOOSE i \in 1..Len(ParamNames) : ParamNames[i] = n

\* The position, in named_parameters order, of the first parameter that is
\* no key of temp_grad (temp_grad[n] raises KeyError there); 0 when every
\* parameter is a key.
FirstMissing(tg) ==
    IF \E i \in 1..Len(ParamNames) : IsNone(tg[ParamNames[i]])
    THEN CHOOSE i \in 1..Len(ParamNames) :
            /\ IsNone(tg[ParamNames[i]])
            /\ \A j \in 1..(i - 1) : ~IsNone(tg[ParamNames[j]])
    ELSE 0

\* RevertModel adding back a full learning-rate step.
RevertModel_FullStep(m, tg, t) ==
    [n \in Params |->
        IF FirstMissing(tg) = 0 \/ IndexOf(n) < FirstMissing(tg)
        THEN add_(m[n], sign(Val(tg[n])), get_last_lr(t))
        ELSE m[n]]

\* The revert loop over named_parameters: p.data.add_(temp_grad[n].sign(),
\* alpha=...) for the parameters the loop reaches before it raises.
RevertModel(m, tg, t) ==
    [n \in Params |->
        IF FirstMissing(tg) = 0 \/ IndexOf(n) < FirstMissing(tg)
        THEN add_(m[n], sign(Val(tg[n])), TrialStep(t))
        ELSE m[n]]

\* loss / n_batches if n_batches > 0 else 0
PerBatch(loss, n_batches) == IF n_batches > 0 THEN loss \div n_batches ELSE 0

\* 100*(1.-loss_after_per_batch/loss_before_per_batch), for a non-zero
\* divisor (exact for the losses of BatchLoss)
Improvement(after, before) == (100 * (before - after)) \div before

\* Binary with the comparison made non-strict.
Binary_NonStrict(own, other) == IF other <= own THEN 1 ELSE -1

\* binary_value = 1 if loss_improvement_other[uid] < loss_improvement[uid] else -1
Binary(own, other) == IF other < own THEN 1 ELSE -1

\* prev_avg = loss_improvement_moving_avg[uid] if uid in ... else 0
PrevAvg(avg, uid) == IF IsNone(avg[uid]) THEN 0 ELSE Val(avg[uid])

\* MovingAverage with the two weights exchanged.
MovingAverage_SwappedWeights(prev_avg, binary) ==
    (prev_avg + (AlphaDen - 1) * Scale * binary) \div AlphaDen

\* MovingAverage with the weight alpha left off the binary value.
MovingAverage_UnweightedSignal(prev_avg, binary) ==
    ((AlphaDen - 1) * prev_avg) \div AlphaDen + Scale * binary

\* MovingAverage with the binary value subtracted.
MovingAverage_Subtracted(prev_avg, binary) ==
    ((AlphaDen - 1) * prev_avg - Scale * binary) \div AlphaDen

\* (1 - alpha) * prev_avg + alpha * binary_value, alpha = 1 / AlphaDen
MovingAverage(prev_avg, binary) ==
    ((AlphaDen - 1) * prev_avg + Scale * binary) \div AlphaDen

\* GatheredGrad without the sign.
GatheredGrad_Unsigned(sd, n) ==
    batch_decompress(Val(sd[idxs_key(n)]), Val(sd[vals_key(n)]))

\* new_grad of a parameter with gathered data, after p.grad.sign_()
GatheredGrad(sd, n) ==
    sign(batch_decompress(Val(sd[idxs_key(n)]), Val(sd[vals_key(n)])))

\* self.optimizer.step(): SGD without momentum, p -= lr * p.grad for every
\* parameter whose grad is set.
OptimizerStep(m, g, t) ==
    [n \in Params |->
        IF IsNone(g[n]) THEN m[n] ELSE sub_(m[n], Val(g[n]), get_last_lr(t))]

\* ------------------------------------------------------------------ actions
\* Miner.__init__, "Init bittensor objects": without --local the metagraph
\* is read from self.subtensor, which is assigned only after the branch, so
\* the construction raises AttributeError.
Construct ==
    /\ pc = "init"
    /\ IF local
       THEN pc' = "boot" /\ err' = err
       ELSE pc' = "crashed" /\ err' = "AttributeError"
    /\ UNCHANGED <<clock_vars, sync_window, global_step, peers, gather_result,
                   eval_result, eval_idx, model, model_copy, grad, temp_grad,
                   eval_vars, trust_vars, boot_vars, last_gather_window>>

\* load_state_dict that raises: the tensors before the faulty one are
\* copied in.
PartialLoad(m, state_dict) ==
    [n \in Params |-> IF IndexOf(n) = 1 THEN state_dict[n] ELSE m[n]]

\* "Try to load latest checkpoint" and the start of the block listener:
\* nothing with --local; otherwise one comms.get when the highest stake is
\* positive, whose state is loaded when it is not None, every exception
\* being caught and logged.
Bootstrap ==
    /\ pc = "boot"
    /\ IF local \/ stake <= 0
       THEN UNCHANGED <<model, checkpoint_gets>>
       ELSE /\ checkpoint_gets' = checkpoint_gets + 1
            /\ \E outcome \in {"none", "loaded", "get_raises", "load_raises"} :
                  model' = CASE outcome = "loaded" -> Checkpoint
                             [] outcome = "load_raises" -> PartialLoad(model, Checkpoint)
                             [] OTHER -> model
    /\ pc' = "wait"
    /\ UNCHANGED <<err, clock_vars, sync_window, global_step, peers,
                   gather_result, eval_result, eval_idx, model_copy, grad,
                   temp_grad, eval_vars, trust_vars, local, stake,
                   last_gather_window>>

\* `while True: if self.current_window != self.sync_window: break`, entered
\* once, before the window loop.
WaitWindow ==
    /\ pc = "wait"
    /\ current_window # sync_window
    /\ pc' = "top"
    /\ UNCHANGED <<err, clock_vars, sync_window, global_step, peers,
                   gather_result, eval_result, eval_idx, model, model_copy,
                   grad, temp_grad, eval_vars, trust_vars>>
    /\ UNCHANGED boot_vars
    /\ UNCHANGED last_gather_window

\* Top of the window loop up to the result of comms.gather: the model is
\* copied, self is removed from the peers, the gather for sync_window
\* returns one of results, and eval_result starts empty. A run is followed
\* for MaxWindows iterations and up to the gather of the next one.
Gather(results) ==
    /\ pc = "top"
    /\ global_step <= MaxWindows
    /\ model_copy' = model
    /\ peers' = IF InList(peers, Uid) THEN remove(peers, Uid) ELSE peers
    /\ gather_result' \in results
    /\ eval_result' = NoDict
    /\ eval_idx' = 1
    /\ pc' = "fetch"
    /\ UNCHANGED <<err, clock_vars, sync_window, global_step, model, grad,
                   temp_grad, eval_vars, trust_vars>>
    /\ UNCHANGED boot_vars
    /\ last_gather_window' = current_window

\* eval_result[eval_uid] = await self.comms.get(...): None or the update.
Fetch ==
    /\ pc = "fetch"
    /\ global_step < MaxWindows
    /\ eval_idx <= Len(peers)
    /\ \E r \in {NoneVal} \cup {Some(u) : u \in Updates} :
          eval_result' = [eval_result EXCEPT ![peers[eval_idx]] = r]
    /\ eval_idx' = eval_idx + 1
    /\ UNCHANGED <<pc, err, clock_vars, sync_window, global_step, peers,
                   gather_result, model, model_copy, grad, temp_grad,
                   eval_vars, trust_vars>>
    /\ UNCHANGED boot_vars
    /\ UNCHANGED last_gather_window

\* End of the fetch loop: loss_improvement = {}.
FetchDone ==
    /\ pc = "fetch"
    /\ global_step < MaxWindows
    /\ eval_idx > Len(peers)
    /\ loss_improvement' = NoDict
    /\ eval_idx' = 1
    /\ pc' = "own"
    /\ UNCHANGED <<err, clock_vars, sync_window, global_step, peers,
                   gather_result, eval_result, model, model_copy, grad,
                   temp_grad, loss_before_per_batch, loss_after_per_batch,
                   loss_improvement_other, trust_vars>>
    /\ UNCHANGED boot_vars
    /\ UNCHANGED last_gather_window

\* `if eval_result[eval_uid] is None: continue`, in either pass.
EvalSkip(pass) ==
    /\ pc = pass
    /\ eval_idx <= Len(peers)
    /\ IsNone(eval_result[peers[eval_idx]])
    /\ eval_idx' = eval_idx + 1
    /\ UNCHANGED <<pc, err, clock_vars, sync_window, global_step, peers,
                   gather_result, eval_result, model, model_copy, grad,
                   temp_grad, eval_vars, trust_vars>>
    /\ UNCHANGED boot_vars
    /\ UNCHANGED last_gather_window

\* One peer's evaluation up to the trial: the loss before is averaged over
\* the batches the loader yields, and the update is trial-applied. The
\* own-data pass starts from temp_grad = {}, the other-data pass from
\* temp_grad as it is.
EvalTrial(pass) ==
    /\ pc = pass
    /\ eval_idx <= Len(peers)
    /\ ~IsNone(eval_result[peers[eval_idx]])
    /\ \E n_batches \in 0..MaxBatches, l \in BatchLoss :
          loss_before_per_batch' = PerBatch(l * n_batches, n_batches)
    /\ LET state_dict == Val(eval_result[peers[eval_idx]])
           tg == IF pass = "own" THEN [n \in Params |-> NoneVal] ELSE temp_grad
       IN /\ temp_grad' = TrialTempGrad(tg, state_dict)
          /\ model' = TrialModel(model, state_dict, global_step)
    /\ pc' = IF pass = "own" THEN "own_trial" ELSE "other_trial"
    /\ UNCHANGED <<err, clock_vars, sync_window, global_step, peers,
                   gather_result, eval_result, eval_idx, model_copy, grad,
                   loss_after_per_batch, loss_improvement,
                   loss_improvement_other, trust_vars>>
    /\ UNCHANGED boot_vars
    /\ UNCHANGED last_gather_window

\* The rest of one peer's evaluation: the loss after, the revert loop (which
\* raises KeyError at a parameter that is no key of temp_grad) and the loss
\* improvement (which raises ZeroDivisionError for a zero loss before).
EvalRevert(pass) ==
    /\ pc = IF pass = "own" THEN "own_trial" ELSE "other_trial"
    /\ model' = RevertModel(model, temp_grad, global_step)
    /\ \E n_batches \in 0..MaxBatches, l \in BatchLoss :
        LET after == PerBatch(l * n_batches, n_batches)
            uid == peers[eval_idx]
        IN IF FirstMissing(temp_grad) # 0
           THEN /\ pc' = "crashed"
                /\ err' = "KeyError"
                /\ UNCHANGED <<eval_idx, eval_vars>>
           ELSE IF loss_before_per_batch = 0
           THEN /\ pc' = "crashed"
                /\ err' = "ZeroDivisionError"
                /\ loss_after_per_batch' = after
                /\ UNCHANGED <<eval_idx, loss_before_per_batch,
                               loss_improvement, loss_improvement_other>>
           ELSE /\ pc' = pass
                /\ err' = err
                /\ loss_after_per_batch' = after
                /\ eval_idx' = eval_idx + 1
                /\ IF pass = "own"
                   THEN /\ loss_improvement' =
                             [loss_improvement EXCEPT
                                ![uid] = Some(Improvement(after, loss_before_per_batch))]
                        /\ UNCHANGED loss_improvement_other
                   ELSE /\ loss_improvement_other' =
                             [loss_improvement_other EXCEPT
                                ![uid] = Some(Improvement(after, loss_before_per_batch))]
                        /\ UNCHANGED loss_improvement
                /\ UNCHANGED loss_before_per_batch
    /\ UNCHANGED <<clock_vars, sync_window, global_step, peers, gather_result,
                   eval_result, model_copy, grad, temp_grad, trust_vars>>
    /\ UNCHANGED boot_vars
    /\ UNCHANGED last_gather_window

\* End of the own-data pass: model_copy = copy.deepcopy(self.model) and
\* loss_improvement_other = {}.
OwnDone ==
    /\ pc = "own"
    /\ eval_idx > Len(peers)
    /\ model_copy' = model
    /\ loss_improvement_other' = NoDict
    /\ eval_idx' = 1
    /\ pc' = "other"
    /\ UNCHANGED <<err, clock_vars, sync_window, global_step, peers,
                   gather_result, eval_result, model, grad, temp_grad,
                   loss_before_per_batch, loss_after_per_batch,
                   loss_improvement, trust_vars>>
    /\ UNCHANGED boot_vars
    /\ UNCHANGED last_gather_window

\* End of the other-data pass.
OtherDone ==
    /\ pc = "other"
    /\ eval_idx > Len(peers)
    /\ pc' = "trust"
    /\ UNCHANGED <<err, clock_vars, sync_window, global_step, peers,
                   gather_result, eval_result, eval_idx, model, model_copy,
                   grad, temp_grad, eval_vars, trust_vars>>
    /\ UNCHANGED boot_vars
    /\ UNCHANGED last_gather_window

\* The uids the moving-average loop updates.
Evaluated ==
    {u \in Uids : ~IsNone(loss_improvement[u]) /\ ~IsNone(loss_improvement_other[u])}

\* `for uid in loss_improvement.keys(): if uid in loss_improvement_other:`
\* the binary value and the moving average of every evaluated uid.
Trust ==
    /\ pc = "trust"
    /\ binary_value' =
          [u \in Uids |->
              IF u \in Evaluated
              THEN Some(Binary(Val(loss_improvement[u]), Val(loss_improvement_other[u])))
              ELSE binary_value[u]]
    /\ loss_improvement_moving_avg' =
          [u \in Uids |->
              IF u \in Evaluated
              THEN Some(MovingAverage(PrevAvg(loss_improvement_moving_avg, u),
                                      Val(binary_value'[u])))
              ELSE loss_improvement_moving_avg[u]]
    /\ signal_log' =
          [u \in Uids |->
              IF u \in Evaluated
              THEN Append(signal_log[u], Val(binary_value'[u]))
              ELSE signal_log[u]]
    /\ pc' = "aggregate"
    /\ UNCHANGED <<err, clock_vars, sync_window, global_step, peers,
                   gather_result, eval_result, eval_idx, model, model_copy,
                   grad, temp_grad, eval_vars>>
    /\ UNCHANGED boot_vars
    /\ UNCHANGED last_gather_window

\* "Decompress state and apply to grad": p.grad of every parameter with
\* gathered idxs and vals becomes the sign of the decoded gathered gradient;
\* the grad of the others is left as it is.
Aggregate ==
    /\ pc = "aggregate"
    /\ grad' = [n \in Params |->
                  IF HasUpdate(gather_result, n)
                  THEN Some(GatheredGrad(gather_result, n))
                  ELSE grad[n]]
    /\ pc' = "step"
    /\ UNCHANGED <<err, clock_vars, sync_window, global_step, peers,
                   gather_result, eval_result, eval_idx, model, model_copy,
                   temp_grad, eval_vars, trust_vars>>
    /\ UNCHANGED boot_vars
    /\ UNCHANGED last_gather_window

\* Step that also empties the moving averages.
Step_ClearsAverages ==
    /\ pc = "step"
    /\ model' = OptimizerStep(model, grad, global_step)
    /\ global_step' = global_step + 1
    /\ sync_window' = sync_window + 1
    /\ gather_result' = EmptyDict
    /\ eval_result' = NoDict
    /\ eval_idx' = 1
    /\ loss_before_per_batch' = 0
    /\ loss_after_per_batch' = 0
    /\ loss_improvement' = NoDict
    /\ loss_improvement_other' = NoDict
    /\ binary_value' = NoDict
    /\ loss_improvement_moving_avg' = NoDict
    /\ pc' = "top"
    /\ UNCHANGED <<err, clock_vars, peers, model_copy, grad, temp_grad,
                   signal_log>>
    /\ UNCHANGED boot_vars
    /\ UNCHANGED last_gather_window

\* Step that also moves the clock's window to the new sync window.
Step_SetsCurrentWindow ==
    /\ pc = "step"
    /\ model' = OptimizerStep(model, grad, global_step)
    /\ global_step' = global_step + 1
    /\ sync_window' = sync_window + 1
    /\ current_window' = sync_window + 1
    /\ gather_result' = EmptyDict
    /\ eval_result' = NoDict
    /\ eval_idx' = 1
    /\ loss_before_per_batch' = 0
    /\ loss_after_per_batch' = 0
    /\ loss_improvement' = NoDict
    /\ loss_improvement_other' = NoDict
    /\ binary_value' = NoDict
    /\ pc' = "top"
    /\ UNCHANGED <<err, current_block, peers, model_copy, grad, temp_grad,
                   loss_improvement_moving_avg, signal_log>>
    /\ UNCHANGED boot_vars
    /\ UNCHANGED last_gather_window

\* optimizer.step(), scheduler.step(), global_step += 1, sync_window += 1.
\* The locals of the iteration that the next iteration assigns before it
\* reads them (gather_result, eval_result, the losses, the improvements and
\* binary_value) are dead from here on and are cleared.
Step ==
    /\ pc = "step"
    /\ model' = OptimizerStep(model, grad, global_step)
    /\ global_step' = global_step + 1
    /\ sync_window' = sync_window + 1
    /\ gather_result' = EmptyDict
    /\ eval_result' = NoDict
    /\ eval_idx' = 1
    /\ loss_before_per_batch' = 0
    /\ loss_after_per_batch' = 0
    /\ loss_improvement' = NoDict
    /\ loss_improvement_other' = NoDict
    /\ binary_value' = NoDict
    /\ pc' = "top"
    /\ UNCHANGED <<err, clock_vars, peers, model_copy, grad, temp_grad,
                   loss_improvement_moving_avg, signal_log>>
    /\ UNCHANGED boot_vars
    /\ UNCHANGED last_gather_window

\* BlockHandler that also moves the sync window to the clock's window.
BlockHandler_SyncsWindow ==
    /\ pc \notin {"init", "boot", "crashed"}
    /\ \E number \in (current_block + 1)..MaxBlock :
          /\ current_block' = number
          /\ current_window' = IF WindowOf(number) # current_window
                               THEN WindowOf(number)
                               ELSE current_window
    /\ sync_window' = current_window'
    /\ UNCHANGED <<pc, err, global_step, peers, gather_result,
                   eval_result, eval_idx, model, model_copy, grad, temp_grad,
                   eval_vars, trust_vars>>
    /\ UNCHANGED boot_vars
    /\ UNCHANGED last_gather_window

\* block_listener's handler, on the header of a later block; it runs on its
\* own thread until the process ends.
BlockHandler ==
    /\ pc \notin {"init", "boot", "crashed"}
    /\ \E number \in (current_block + 1)..MaxBlock :
          /\ current_block' = number
          /\ current_window' = IF WindowOf(number) # current_window
                               THEN WindowOf(number)
                               ELSE current_window
    /\ UNCHANGED <<pc, err, sync_window, global_step, peers, gather_result,
                   eval_result, eval_idx, model, model_copy, grad, temp_grad,
                   eval_vars, trust_vars>>
    /\ UNCHANGED boot_vars
    /\ UNCHANGED last_gather_window

Next ==
    \/ Construct
    \/ Bootstrap
    \/ WaitWindow
    \/ Gather(Gathers)
    \/ Fetch
    \/ FetchDone
    \/ EvalSkip("own")
    \/ EvalTrial("own")
    \/ EvalRevert("own")
    \/ OwnDone
    \/ EvalSkip("other")
    \/ EvalTrial("other")
    \/ EvalRevert("other")
    \/ OtherDone
    \/ Trust
    \/ Aggregate
    \/ Step
    \/ BlockHandler

Spec == Init /\ [][Next]_vars

\* The program with the gather results of GathersAny.
NextAny ==
    \/ Construct
    \/ Bootstrap
    \/ WaitWindow
    \/ Gather(GathersAny)
    \/ Fetch
    \/ FetchDone
    \/ EvalSkip("own")
    \/ EvalTrial("own")
    \/ EvalRevert("own")
    \/ OwnDone
    \/ EvalSkip("other")
    \/ EvalTrial("other")
    \/ EvalRevert("other")
    \/ OtherDone
    \/ Trust
    \/ Aggregate
    \/ Step
    \/ BlockHandler

SpecAny == Init /\ [][NextAny]_vars

\* ------------------------------------------------------------------ claims
\* The update fetched for the peer under evaluation.
CurrentUpdate == Val(eval_result[peers[eval_idx]])

InTrial == pc \in {"own_trial", "other_trial"}

\* The pass a trial position belongs to.
PassOf(p) == IF p = "own_trial" THEN "own" ELSE "other"

\* The improvement recorded for uid by the pass that is running.
Recorded(uid) ==
    IF pc = "own_trial" THEN loss_improvement'[uid] ELSE loss_improvement_other'[uid]

\* C1: a failure in one peer's fetch or evaluation never aborts the window:
\* Miner.run is never ended by an exception of a peer's evaluation.
C1_WindowNeverAborted == err \notin {"KeyError", "ZeroDivisionError"}

\* C2: a window whose gather result carries idxs/vals for no parameter is a
\* no-op step: the optimizer step leaves every parameter as it was.
C2_NoDataStepIsNoOp ==
    [][(pc = "step" /\ \A n \in Params : ~HasUpdate(gather_result, n))
          => model' = model]_vars

\* C3: once a peer's evaluation is over, in whichever pass and for whichever
\* subset of parameters its update holds, the trial is reverted exactly:
\* every parameter has the value it had before the first trial of the window.
C3_TrialRevertedExactly ==
    pc \in {"own", "other", "trust", "crashed"} => model = model_copy

\* C4: an update that lacks idxs or vals for some parameter (and has them
\* for another) is evaluated with that parameter skipped: the evaluation
\* completes, records an improvement and leaves the model reverted.
C4_PartialUpdateSkipsParameter ==
    [][(/\ InTrial
        /\ pc' # pc
        /\ loss_before_per_batch # 0
        /\ \E n \in Params : ~HasUpdate(CurrentUpdate, n)
        /\ \E n \in Params : HasUpdate(CurrentUpdate, n))
          => /\ pc' = PassOf(pc)
             /\ model' = model_copy
             /\ ~IsNone(Recorded(peers[eval_idx]))]_vars

\* C5: the evaluation of an update with no parameter at all completes,
\* leaves every parameter identical and has lossAfter equal to lossBefore.
C5_EmptyUpdateIsIdentity ==
    [][(/\ InTrial
        /\ pc' # pc
        /\ \A n \in Params : ~HasUpdate(CurrentUpdate, n))
          => /\ pc' = PassOf(pc)
             /\ model' = model_copy
             /\ loss_after_per_batch' = loss_before_per_batch']_vars

\* C6: the improvement calculation never divides by zero: when lossBefore is
\* 0 the improvement recorded for the peer is 0 and the window goes on.
C6_ZeroLossBeforeGivesZero ==
    [][(/\ InTrial
        /\ pc' # pc
        /\ loss_before_per_batch = 0
        /\ FirstMissing(temp_grad) = 0)
          => /\ pc' = PassOf(pc)
             /\ Recorded(peers[eval_idx]) = Some(0)]_vars

\* C7, as claimed: the binary value of a peer is +1 exactly when its own-data
\* improvement is greater than or equal to its other-data improvement.
C7_SignalNotWorse ==
    \A u \in Uids :
        ~IsNone(binary_value[u]) =>
            (Val(binary_value[u]) = 1
                <=> Val(loss_improvement[u]) >= Val(loss_improvement_other[u]))

\* C7, as amended: the binary value of a peer is +1 exactly when its own-data
\* improvement is strictly greater than its other-data improvement, and -1
\* otherwise; equal improvements give -1.
C7_SignalStrictlyBetter ==
    \A u \in Uids :
        ~IsNone(binary_value[u]) =>
            \/ /\ Val(binary_value[u]) = 1
               /\ Val(loss_improvement[u]) > Val(loss_improvement_other[u])
            \/ /\ Val(binary_value[u]) = -1
               /\ Val(loss_improvement[u]) <= Val(loss_improvement_other[u])

\* A peer with equal improvements has received its binary value.
C7_Witness ==
    \E u \in Uids :
        /\ ~IsNone(binary_value[u])
        /\ Val(loss_improvement[u]) = Val(loss_improvement_other[u])

\* C8: every trust update computes newScore = 0.95 * prevScore + 0.05 *
\* signal, with prevScore = 0 for a peer not seen before; the first update of
\* an unseen peer with signal +1 gives 0.05. (Scores are stored times Scale.)
C8_UpdateRule ==
    [][pc = "trust" /\ pc' = "aggregate" =>
        \A u \in Uids :
            ~IsNone(binary_value'[u]) =>
                LET prev == IF IsNone(loss_improvement_moving_avg[u]) THEN 0
                            ELSE loss_improvement_moving_avg[u][1]
                    new == loss_improvement_moving_avg'[u][1]
                    signal == binary_value'[u][1]
                IN /\ 20 * new = 19 * prev + signal * Scale
                   /\ (IsNone(loss_improvement_moving_avg[u]) /\ signal = 1)
                         => 20 * new = Scale]_vars

\* A peer never seen before has had its first update, with signal +1.
C8_Witness ==
    \E u \in Uids :
        /\ signal_log[u] = <<1>>
        /\ loss_improvement_moving_avg[u] = Some(Scale \div 20)

\* C9: every trust score lies within [-1, 1].
C9_ScoreWithinUnitInterval ==
    \A u \in Uids :
        ~IsNone(loss_improvement_moving_avg[u]) =>
            /\ loss_improvement_moving_avg[u][1] <= Scale
            /\ loss_improvement_moving_avg[u][1] >= -Scale

\* A peer has been updated in two windows, with different signals.
C9_Witness ==
    \E u \in Uids :
        /\ Len(signal_log[u]) >= 2
        /\ signal_log[u][1] # signal_log[u][2]
        /\ ~IsNone(loss_improvement_moving_avg[u])

\* Every binary value uid u has received so far is s.
ConstantSignal(log, s) == Len(log) > 0 /\ \A i \in 1..Len(log) : log[i] = s

\* C10: the score of a peer that has received the same signal s in every
\* window never moves away from s and stays within [-1, 1].
C10_MonotoneTowardSignal ==
    [][\A u \in Uids : \A s \in {-1, 1} :
        (signal_log'[u] # signal_log[u] /\ ConstantSignal(signal_log'[u], s)) =>
            LET prev == IF IsNone(loss_improvement_moving_avg[u]) THEN 0
                        ELSE loss_improvement_moving_avg[u][1]
                new == loss_improvement_moving_avg'[u][1]
            IN /\ s * (new - prev) >= 0
               /\ new <= Scale
               /\ new >= -Scale]_vars

\* A peer has received the same signal in two windows.
C10_Witness ==
    \E u \in Uids :
        /\ Len(signal_log[u]) >= 2
        /\ signal_log[u][1] = signal_log[u][2]
        /\ ~IsNone(loss_improvement_moving_avg[u])

\* C11: a trust score changes only in the trust update of a window, only for
\* a peer evaluated in that window (so it is created at the peer's first
\* evaluation), at most once per window, and once created it is never removed.
C11_ScoreLifecycle ==
    [][\A u \in Uids :
        /\ ~IsNone(loss_improvement_moving_avg[u])
              => ~IsNone(loss_improvement_moving_avg'[u])
        /\ loss_improvement_moving_avg'[u] # loss_improvement_moving_avg[u]
              => /\ pc = "trust"
                 /\ u \in Evaluated
                 /\ ~IsNone(eval_result[u])
                 /\ Len(signal_log'[u]) = Len(signal_log[u]) + 1
                 /\ Len(signal_log'[u]) <= global_step + 1]_vars

\* A peer scored in the first window has no evaluation result in the second
\* window, whose trust update is over, and still has its score.
C11_Witness ==
    /\ pc = "aggregate"
    /\ global_step = 1
    /\ \E u \in Uids :
          /\ Len(signal_log[u]) = 1
          /\ IsNone(eval_result[u])
          /\ ~IsNone(loss_improvement_moving_avg[u])

\* C12: in every window self is not among the peers passed to the gather and
\* is not the target of a per-peer fetch.
C12_SelfNeverRequested ==
    pc = "fetch" => ~InList(peers, Uid)

\* The peers with an own-data result, with an other-data result, and whose
\* per-peer fetch returned an update.
OwnResults == {u \in Uids : ~IsNone(loss_improvement[u])}

OtherResults == {u \in Uids : ~IsNone(loss_improvement_other[u])}

Retrieved == {u \in Uids : ~IsNone(eval_result[u])}

\* The two passes of the window are over: completed, or ended by an
\* exception of a peer's evaluation.
EvaluationOver ==
    pc \in {"trust", "aggregate", "step"} \/ err \in {"KeyError", "ZeroDivisionError"}

\* C13: when the evaluation of a window is over, the peers with an own-data
\* result and the peers with an other-data result are both exactly the peers
\* whose fetch returned an update, and the window has gone on.
C13_ResultsAreRetrievedPeers ==
    EvaluationOver =>
        /\ pc # "crashed"
        /\ OwnResults = Retrieved
        /\ OtherResults = Retrieved

\* Every peer is unresponsive in the window: the gather carries no data and
\* every per-peer fetch returned None.
AllUnresponsive ==
    /\ \A n \in Params : ~HasUpdate(gather_result, n)
    /\ Retrieved = {}

\* C14: the final step of a window in which every peer is unresponsive finds
\* no evaluation result, no trust score touched in the window and no
\* parameter with a non-empty aggregate, and it advances the sync window.
C14_AllUnresponsiveWindow ==
    [][(pc = "step" /\ pc' = "top" /\ AllUnresponsive)
          => /\ OwnResults = {}
             /\ OtherResults = {}
             /\ \A u \in Uids : IsNone(binary_value[u])
             /\ \A n \in Params : IsNone(grad[n]) \/ Val(grad[n]) = Zeros
             /\ sync_window' = sync_window + 1]_vars

\* C15: a gather is issued only after the clock's current window has changed
\* since the previous iteration's gather (since startup, for the first one).
C15_GatherAfterBoundary ==
    [][(pc = "top" /\ pc' = "fetch") => current_window # last_gather_window]_vars

\* C16: the sync window never decreases; the final advance of an iteration
\* adds exactly 1 to it, and no other step (the clock handler included)
\* changes it.
C16_SyncWindowAdvance ==
    [][/\ sync_window' >= sync_window
       /\ (pc = "step" /\ pc' = "top") => sync_window' = sync_window + 1
       /\ ~(pc = "step" /\ pc' = "top") => sync_window' = sync_window]_vars

\* Two iterations have completed from sync window 0 while the clock, whose
\* handler has run, is one window behind.
C16_Witness ==
    /\ global_step = 2
    /\ sync_window = 2
    /\ current_window = 1
    /\ current_block > BlocksPerWindow

\* C17: once the clock handler has processed a header, the current window is
\* the integer quotient of that block height by blocks_per_window, and it
\* has not decreased.
C17_WindowIsQuotient ==
    [][current_block' # current_block
          => /\ current_window' = current_block' \div BlocksPerWindow
             /\ current_window' >= current_window]_vars

\* The handler has processed the header of block 3, in the middle of
\* window 1.
C17_Witness ==
    /\ current_block = BlocksPerWindow + 1
    /\ current_window = 1
    /\ pc # "wait"

\* Everything but the clock: the state of the main loop.
main_vars == <<pc, err, sync_window, global_step, peers, gather_result,
               eval_result, eval_idx, model, model_copy, grad, temp_grad,
               eval_vars, trust_vars, boot_vars, last_gather_window>>

\* C18: under every interleaving a step that writes the current block or the
\* current window (the handler's) writes nothing else, so a step of the main
\* loop writes neither; the current window the main loop reads is the window
\* of a block the clock holds and never goes back; and the main loop leaves
\* its wait only when the current window differs from the sync window.
C18_ClockIsolation ==
    [][/\ clock_vars' # clock_vars => main_vars' = main_vars
       /\ current_window' = current_block' \div BlocksPerWindow
       /\ current_window' >= current_window
       /\ (pc = "wait" /\ pc' # "wait") => current_window # sync_window]_vars

\* The handler has run while the main loop was in its wait, and the main
\* loop has read the new current window and left the wait.
C18_Witness ==
    /\ pc = "top"
    /\ global_step = 0
    /\ current_block >= BlocksPerWindow
    /\ current_window = sync_window + 1

\* C19: at most one peer's trial is applied to the model at any time: while
\* a trial is applied the model is the window's copy moved by that peer's
\* update alone, and wherever the next trial, the trust update or the
\* aggregate can begin, the model is the copy again; the only step the main
\* loop takes from a trial position is that trial's revert.
C19_TrialsAreExclusive ==
    /\ [](/\ InTrial => model = TrialModel(model_copy, CurrentUpdate, global_step)
          /\ pc \in {"fetch", "own", "other", "trust", "aggregate", "step"}
                => model = model_copy)
    /\ [][(InTrial /\ main_vars' # main_vars)
             => /\ pc' \in {PassOf(pc), "crashed"}
                /\ pc' = PassOf(pc) => model' = model_copy]_vars

\* The trial of the second peer of the list is applied to the model, after
\* the first peer's trial was applied and reverted.
C19_Witness ==
    /\ InTrial
    /\ eval_idx = 2
    /\ ~IsNone(eval_result[peers[1]])
    /\ model # model_copy

\* C20: when the process is started on the network and the highest stake is
\* 0, no checkpoint fetch is made, the model stays as freshly initialised
\* until the window loop's first step, and the process goes on to the window
\* loop.
C20_ZeroStakeStartsFresh ==
    (~local /\ stake = 0) =>
        /\ pc # "crashed"
        /\ checkpoint_gets = 0
        /\ global_step = 0 => model = FreshModel

\* C21: when the process is started on the network and a validator has
\* stake, the checkpoint is fetched at most once, the process is not ended
\* before the window loop, and until the loop's first step the model is the
\* fresh one or the fetched checkpoint.
C21_BootstrapNeverFatal ==
    (~local /\ stake > 0) =>
        /\ checkpoint_gets <= 1
        /\ pc # "crashed"
        /\ global_step = 0 => model \in {FreshModel, Checkpoint}

\* The gather result carries data for some parameters and not for others.
PartialGather ==
    /\ \E n \in Params : HasUpdate(gather_result, n)
    /\ \E n \in Params : ~HasUpdate(gather_result, n)

\* C22: the step of a window whose gather carries data for some parameters
\* only leaves every parameter without gathered data as it was and moves
\* every parameter with gathered data by that window's gathered data.
C22_PartialGatherSkips ==
    [][(pc = "step" /\ pc' = "top" /\ PartialGather)
          => \A n \in Params :
                IF HasUpdate(gather_result, n)
                THEN model'[n] = sub_(model[n], GatheredGrad(gather_result, n),
                                      get_last_lr(global_step))
                ELSE model'[n] = model[n]]_vars

\* The dense gathered gradient of parameter n, before the sign is taken.
Gathered(n) ==
    batch_decompress(Val(gather_result[idxs_key(n)]), Val(gather_result[vals_key(n)]))

\* C23: at the optimizer step of a window, every element of every parameter
\* that received gathered data has an update direction of -1, 0 or +1: its
\* p.grad is one of these and the step moves it by the learning rate times
\* that direction.
C23_SignOnlyAggregate ==
    [][(pc = "step" /\ pc' = "top")
          => \A n \in Params : HasUpdate(gather_result, n) =>
                \A i \in 1..TensorLen :
                    /\ Val(grad[n])[i] \in {-1, 0, 1}
                    /\ Val(grad[n])[i] = Sgn(Gathered(n)[i])
                    /\ model[n][i] - model'[n][i]
                          = get_last_lr(global_step) * Val(grad[n])[i]]_vars

\* A window is at its optimizer step with gathered values whose sum for one
\* element is larger than 1 in magnitude, and that element's p.grad is +-1.
C23_Witness ==
    /\ pc = "step"
    /\ \E n \in Params :
          /\ HasUpdate(gather_result, n)
          /\ \E i \in 1..TensorLen :
                /\ Gathered(n)[i] > 1 \/ Gathered(n)[i] < -1
                /\ Val(grad[n])[i] \in {-1, 1}

\* C24: whenever a gather or a per-peer fetch is requested, the window index
\* it asks for (the sync window) is not beyond the clock's current window.
C24_NoRequestAheadOfClock ==
    [][(\/ pc = "top" /\ pc' = "fetch"
        \/ pc = "fetch" /\ eval_idx' = eval_idx + 1)
          => sync_window <= current_window]_vars

====
